---- MODULE Spec2Model ----
(***************************************************************************)
(* Wallet instance lifecycle manager of trtl-apps (walletManager.ts).      *)
(*                                                                         *)
(* The module-level singleton (masterWallet, masterWalletStartedAt,        *)
(* masterWalletLastSaveAt) is shared by every request handler of one       *)
(* process.  Handlers are async functions on a single thread: a handler    *)
(* runs without interruption from one await to the next, so every action   *)
(* below is the code between two suspension points, and the program        *)
(* counter of a handler names the await it is suspended in.                *)
(***************************************************************************)
EXTENDS Integers, FiniteSets, Sequences, TLC

\* ------------------------------------------------------------------ bounds
\* wallet instances that may be constructed in one run
MaxWallets == 3
\* clock advances in one run
MaxTicks == 2
\* primary blob writes in one run
MaxSaves == 2
\* highest block height a wallet or its daemon reports
MaxHeight == 5
\* backup blobs written in one run
MaxBackups == 1
\* start calls made to the App Engine wallet in one run
MaxStarts == 2
\* transaction calls made to the App Engine wallet in one run
MaxRpcs == 2

\* concurrent request handlers of the process
Procs == {"p1", "p2"}
\* daemon peers a ServiceConfig may name: <<daemonHost, daemonPort>>
Peers == {<<"a", 1>>, <<"a", 2>>}

\* --------------------------------------------------------------- constants
\* `undefined` for a handle or a timestamp (falsy in the code's tests)
Undefined == 0
\* 10 minutes in ms: the max lifetime of a master wallet instance
WalletMaxLifetime == 1000 * 60 * 10
\* one clock step: 5 minutes, so that two steps reach the lifetime exactly
ClockStep == WalletMaxLifetime \div 2

NoError == "none"
ErrInfo == "service/master-wallet-info"
ErrFile == "service/master-wallet-file"
ErrSync == "service/master-wallet-sync-failed"
ErrHalted == "service/service-halted"
ErrUnknown == "service/unknown-error"
\* a rejected promise: the handler threw (e.g. a method call on undefined)
Thrown == "TypeError"
\* the boolean a warmup resolves to, in the place of the error
Ready == "true"
NotReady == "false"
\* 4 hours in ms: the max uptime of the App Engine wallet
MaxUptime == 1000 * 60 * 60 * 4
\* peers the App Engine wallet may be bound to or asked to bind to: the
\* daemon peers and one on another host
RemotePeers == Peers \cup {<<"b", 1>>}

VARIABLES
  masterWallet,            \* the singleton handle: a wallet id, or Undefined
  masterWalletStartedAt,   \* Date.now() of the last startWalletFromString
  masterWalletLastSaveAt,  \* lastSaveAt baseline of the installed instance
  doc,                     \* firestore document wallets/master (WalletInfo)
  blob,                    \* primary wallet blob: number of writes, 0 = none
  keyFile,                 \* os.tmpdir()/keyfile.json exists
  now,                     \* Date.now()
  wallets,                 \* every WalletBackend constructed so far
  nWallets,                \* how many of them
  installedStartedAt,      \* history: when the installed instance was started
  installs,                \* history: per instance found, replacements installed
  pc,                      \* per handler: the await it is suspended in
  op,                      \* per handler: the exported function it runs
  loc,                     \* per handler: its parameters and live locals
  ret,                     \* per handler: what the exported function returned
  waits,                   \* per handler: the two branches of its waitForWalletSync
  created,                 \* history: createMasterWallet calls past the record creation
  backups,                 \* blobs written under the backups directory
  remote                   \* the App Engine wallet: its status and the start calls

vars == <<masterWallet, masterWalletStartedAt, masterWalletLastSaveAt, doc, blob,
          keyFile, now, wallets, nWallets, installedStartedAt, installs,
          pc, op, loc, ret, waits, created, backups, remote>>

registry == <<masterWallet, masterWalletStartedAt, masterWalletLastSaveAt>>
storage == <<doc, blob, keyFile>>
history == <<installedStartedAt, installs>>
\* what getMasterWallet and saveMasterWallet never touch
periphery == <<waits, created, backups, remote>>

WalletIds == 1..MaxWallets

\* A WalletBackend nobody has constructed yet.  stops counts the stop() calls
\* made on it; stopSaw is the singleton at the moment of the last of them.
\* height and network are what its getSyncStatus() reports.
NoWallet == [st |-> "none", peer |-> <<"a", 1>>, stops |-> 0, stopSaw |-> Undefined,
             height |-> 0, network |-> 0, loaded |-> 0]

NoDoc == [exists |-> FALSE, lastSaveAt |-> 0, lastBackupAt |-> 0, wrote |-> 0]

NoRet == [h |-> Undefined, e |-> NoError, fetches |-> 0]

\* getWalletSyncInfo of a wallet that reports nothing
NoSyncInfo == [walletHeight |-> 0, networkHeight |-> 0, heightDelta |-> 0]

\* The App Engine wallet before anybody started it.  starts counts the start
\* calls made to it, rpcs the prepare_transaction and send calls.
NoRemote == [started |-> FALSE, peer |-> <<"a", 1>>, uptime |-> 0, starts |-> 0,
             rpcs |-> 0]

\* The state of one waitForWalletSync call: the wallet, syncInfoStart, the
\* 'sync' listener of p1 and its closure variable synced (flag), the sleep of
\* p2 (timer), what Promise.race settled to and through which branch, and
\* the dropCurrentNode calls it made.
NoWait == [w |-> Undefined, start |-> NoSyncInfo, listening |-> FALSE,
           flag |-> FALSE, timer |-> "none", result |-> "none", by |-> "none",
           dropped |-> 0]

\* Parameters and locals of a handler that is not running.  A local is put
\* back to its value here once the code no longer reads it.
NoLoc == [cfg |-> <<"a", 1>>, force |-> FALSE, wait |-> FALSE, info |-> NoDoc,
          branch |-> "none", seen |-> Undefined, newW |-> Undefined,
          startedAt |-> Undefined, fetches |-> 0, h |-> Undefined,
          w |-> Undefined, ts |-> 0, prim |-> "none", mir |-> "none",
          saved |-> FALSE, token |-> FALSE, ready |-> FALSE, wrote |-> 0]

\* ---------------------------------------------------------------- initial
\* Module load: no instance yet.  The deployment either has no metadata
\* record, or a record whose blob was never written (createMasterWallet's
\* save failed), or a record and a blob.
Init ==
  /\ masterWallet = Undefined
  /\ masterWalletStartedAt = Undefined
  /\ masterWalletLastSaveAt = Undefined
  /\ \E d \in BOOLEAN, b \in BOOLEAN :
       /\ b => d
       /\ doc = IF d THEN [exists |-> TRUE, lastSaveAt |-> 1, lastBackupAt |-> 0,
                            wrote |-> IF b THEN 1 ELSE 0]
                     ELSE NoDoc
       /\ blob = IF b THEN 1 ELSE 0
  /\ keyFile = FALSE
  /\ now = 1
  /\ wallets = [i \in WalletIds |-> NoWallet]
  /\ nWallets = 0
  /\ installedStartedAt = Undefined
  /\ installs = [i \in 0..MaxWallets |-> 0]
  /\ pc = [p \in Procs |-> "idle"]
  /\ op = [p \in Procs |-> "none"]
  /\ loc = [p \in Procs |-> NoLoc]
  /\ ret = [p \in Procs |-> NoRet]
  /\ waits = [p \in Procs |-> NoWait]
  /\ created = 0
  /\ backups = 0
  /\ remote = NoRemote

\* ------------------------------------------------------------ environment
\* Time passes.
Tick ==
  /\ now < 1 + MaxTicks * ClockStep
  /\ now' = now + ClockStep
  /\ UNCHANGED <<registry, storage, periphery, wallets, nWallets, history, pc, op,
                 loc, ret>>

\* ------------------------------------------------- getMasterWallet policy
\* line 138: the instance's daemon differs from the config's
PeerChanged(w, cfg) ==
  wallets[w].peer[1] # cfg[1] \/ wallets[w].peer[2] # cfg[2]

\* a slip: 5 minutes for 10
LifetimeExceeded_FiveMinutes ==
  /\ masterWalletStartedAt # Undefined
  /\ now >= masterWalletStartedAt + 1000 * 60 * 5

\* line 143: 10 minutes is the max lifetime of a master wallet instance
LifetimeExceeded ==
  /\ masterWalletStartedAt # Undefined
  /\ now >= masterWalletStartedAt + WalletMaxLifetime

\* line 149: the wallet was saved since this instance was loaded
SavedSinceStart(info) == masterWalletLastSaveAt # info.lastSaveAt

\* lines 136-155
RestartNeeded(cfg, info, force) ==
  \/ PeerChanged(masterWallet, cfg)
  \/ LifetimeExceeded
  \/ SavedSinceStart(info)
  \/ force

\* ----------------------------------------------------------- call and return
\* A handler slot is free: nothing runs in it, or its result is consumed.
Free(p) == pc[p] \in {"idle", "done"}

\* The exported function resolves to [h, e] (or rejects, e = Thrown), having
\* made n blob load attempts; its locals are gone.
Return(p, h, e, n) ==
  /\ pc' = [pc EXCEPT ![p] = "done"]
  /\ ret' = [ret EXCEPT ![p] = [h |-> h, e |-> e, fetches |-> n]]
  /\ loc' = [loc EXCEPT ![p] = NoLoc]

\* getMasterWallet resolves to [h, e].  A direct caller gets that; inside
\* getServiceWallet the code after the await (lines 88-102) runs on.
\* Inside backupMasterWallet (lines 440-448) the call is
\* getServiceWallet(false): a rejection goes up to the caller of the backup,
\* an error result is logged and the backup returns, and with a wallet the
\* metadata record is read.
AfterGetMasterWallet(p, h, e, n) ==
  IF op[p] = "backup"
  THEN IF e = Thrown THEN Return(p, Undefined, Thrown, 0)
       ELSE IF h = Undefined THEN Return(p, Undefined, NoError, 0)
       ELSE /\ pc' = [pc EXCEPT ![p] = "bk_info"]
            /\ loc' = [loc EXCEPT ![p] = [NoLoc EXCEPT !.h = h, !.info = doc]]
            /\ UNCHANGED ret
  ELSE IF op[p] = "gmw" \/ e = Thrown \/ h = Undefined \/ ~loc[p].wait
  THEN Return(p, h, e, n)
  ELSE /\ pc' = [pc EXCEPT ![p] = "gsw_sync"]
       /\ loc' = [loc EXCEPT ![p] = [NoLoc EXCEPT !.h = h, !.fetches = n]]
       /\ UNCHANGED ret

\* ------------------------------------------------------- getMasterWallet
\* A direct call getMasterWallet(serviceConfig, forceRestart): the metadata
\* record is read (line 127).
GetMasterWallet(p, cfg, force) ==
  /\ Free(p)
  /\ op' = [op EXCEPT ![p] = "gmw"]
  /\ loc' = [loc EXCEPT ![p] = [NoLoc EXCEPT !.cfg = cfg, !.force = force,
                                             !.info = doc]]
  /\ pc' = [pc EXCEPT ![p] = "gmw_info"]
  /\ ret' = [ret EXCEPT ![p] = NoRet]
  /\ UNCHANGED <<registry, storage, now, periphery, wallets, nWallets, history>>

\* The branch the policy takes: lines 133, 155 and 189.
Branch(cfg, info, force) ==
  IF masterWallet = Undefined THEN "first"
  ELSE IF RestartNeeded(cfg, info, force) THEN "restart"
  ELSE "keep"

\* lines 129-159 and 189-190: the restart policy is evaluated
Decide(p) ==
  /\ pc[p] = "gmw_info"
  /\ IF ~loc[p].info.exists
     THEN AfterGetMasterWallet(p, Undefined, ErrInfo, 0)
     ELSE LET b == Branch(loc[p].cfg, loc[p].info, loc[p].force)
          IN IF b = "keep"
             THEN AfterGetMasterWallet(p, masterWallet, NoError, 0)
             ELSE /\ pc' = [pc EXCEPT ![p] = "gmw_str_info"]
                  /\ loc' = [loc EXCEPT ![p].branch = b, ![p].force = FALSE,
                                        ![p].seen = masterWallet]
                  /\ UNCHANGED ret
  /\ UNCHANGED <<registry, storage, now, periphery, wallets, nWallets, history, op>>

\* getMasterWalletString, lines 697-701: the metadata record is read again
StringInfo(p) ==
  /\ pc[p] = "gmw_str_info"
  /\ IF doc.exists
     THEN /\ pc' = [pc EXCEPT ![p] = "gmw_download"]
          /\ UNCHANGED <<loc, ret>>
     ELSE AfterGetMasterWallet(p, Undefined, ErrFile, 0)
  /\ UNCHANGED <<registry, storage, now, periphery, wallets, nWallets, history, op>>

\* WalletBackend.openWalletFromEncryptedString and wallet.start(), lines 673-689
OpenWallet(n, peer) ==
  [wallets EXCEPT ![n] = [NoWallet EXCEPT !.st = "started", !.peer = peer]]

\* a slip: a failed blob load is tried again
LoadFailed_Retry(p) ==
  /\ pc' = [pc EXCEPT ![p] = "gmw_download"]
  /\ loc' = [loc EXCEPT ![p].fetches = @ + 1]
  /\ UNCHANGED ret

\* What a failed blob load leads to (lines 161-163, 192-195, 684-686): the
\* error is returned; there is no second attempt.
LoadFailed(p) == AfterGetMasterWallet(p, Undefined, ErrFile, loc[p].fetches + 1)

\* a slip: the start time is recorded as soon as startWalletFromString is
\* entered, before the wallet string is opened
StartTimeAfterOpen_Eager(fetched) ==
  IF fetched THEN now ELSE masterWalletStartedAt

\* The recorded start time once the wallet string was fetched and opened or
\* failed to be (lines 684-691): it is as it was, line 691 comes after the
\* await of wallet.start() and only on the branch that opened the wallet.
StartTimeAfterOpen(fetched) == masterWalletStartedAt

\* getMasterWalletString lines 703-712, then lines 161-165 / 192-197 and
\* startWalletFromString up to its await of wallet.start().  The download
\* fails when there is no blob, and may fail when there is one; a blob that
\* was fetched may fail to decrypt.
Download(p, fetched, decrypted) ==
  /\ pc[p] = "gmw_download"
  /\ fetched => blob > 0
  /\ IF fetched /\ decrypted
     THEN /\ nWallets < MaxWallets
          /\ nWallets' = nWallets + 1
          /\ wallets' = [OpenWallet(nWallets + 1, loc[p].cfg)
                            EXCEPT ![nWallets + 1].loaded = blob]
          /\ pc' = [pc EXCEPT ![p] = "gmw_start"]
          /\ loc' = [loc EXCEPT ![p].fetches = @ + 1, ![p].newW = nWallets + 1,
                                ![p].cfg = NoLoc.cfg]
          /\ UNCHANGED ret
     ELSE /\ LoadFailed(p)
          /\ UNCHANGED <<wallets, nWallets>>
  /\ masterWalletStartedAt' = StartTimeAfterOpen(fetched)
  /\ UNCHANGED <<masterWallet, masterWalletLastSaveAt>>
  /\ UNCHANGED <<storage, now, periphery, history, op>>

\* startWalletFromString lines 691-692: wallet.start() has resolved and the
\* start time is recorded; back in getMasterWallet the new wallet is rewound
\* (lines 171-173, 202-204: rewindDistanceOnStart is 40 unless the caller
\* says otherwise, so the await of rewindWallet is always taken)
Started(p) ==
  /\ pc[p] = "gmw_start"
  /\ masterWalletStartedAt' = now
  /\ loc' = [loc EXCEPT ![p].startedAt = now]
  /\ pc' = [pc EXCEPT ![p] = "gmw_rewind"]
  /\ UNCHANGED <<masterWallet, masterWalletLastSaveAt, storage, now, periphery, wallets,
                 nWallets, history, op, ret>>

\* wallet.stop() is invoked on w while the singleton is mw
StopWallet(ws, w, mw) ==
  [ws EXCEPT ![w].stops = @ + 1, ![w].stopSaw = mw]

\* a slip: the old instance is stopped before the new one is installed
StopOld_BeforeSwap(old, new) == StopWallet(wallets, old, old)

\* lines 177-181: the old instance is stopped once the new one is installed
StopOld(old, new) == StopWallet(wallets, old, new)

\* a slip: the instance found at line 133 is taken as the old one
OldWalletInstance_Stale(p) == loc[p].seen

\* line 175: the old instance is the singleton at the time of the swap
OldWalletInstance(p) == masterWallet

\* history: the call installs the instance it built
Installed(p) ==
  /\ installedStartedAt' = loc[p].startedAt
  /\ installs' = [installs EXCEPT ![loc[p].seen] = @ + 1]

\* a slip: the baseline is taken from the metadata record as it is when the
\* instance is installed, after the wallet string was fetched
WalletInfo_Fresh(p) == doc

\* walletInfo, the metadata record as the call read it at line 127, before
\* the wallet string was fetched; lines 178 and 207 take the baseline from it
WalletInfo(p) == loc[p].info

\* lines 175-181: rewindWallet has resolved; swap, then stop the old instance
Swap(p) ==
  /\ pc[p] = "gmw_rewind"
  /\ loc[p].branch = "restart"
  /\ masterWallet' = loc[p].newW
  /\ masterWalletLastSaveAt' = WalletInfo(p).lastSaveAt
  /\ Installed(p)
  /\ IF OldWalletInstance(p) = Undefined
     THEN \* oldWalletInstance.stop() on undefined throws
          /\ Return(p, Undefined, Thrown, loc[p].fetches)
          /\ UNCHANGED wallets
     ELSE /\ wallets' = StopOld(OldWalletInstance(p), loc[p].newW)
          /\ pc' = [pc EXCEPT ![p] = "gmw_stop"]
          /\ loc' = [loc EXCEPT ![p] = [NoLoc EXCEPT !.wait = loc[p].wait,
                                                     !.fetches = loc[p].fetches]]
          /\ UNCHANGED ret
  /\ UNCHANGED <<masterWalletStartedAt, storage, now, periphery, nWallets, op>>

\* lines 206-210: rewindWallet has resolved on the first-access path
Install(p) ==
  /\ pc[p] = "gmw_rewind"
  /\ loc[p].branch = "first"
  /\ masterWallet' = loc[p].newW
  /\ masterWalletLastSaveAt' = WalletInfo(p).lastSaveAt
  /\ Installed(p)
  /\ AfterGetMasterWallet(p, loc[p].newW, NoError, loc[p].fetches)
  /\ UNCHANGED <<masterWalletStartedAt, storage, now, periphery, wallets, nWallets, op>>

\* lines 182-184: the old instance's stop() has resolved
Stopped(p) ==
  /\ pc[p] = "gmw_stop"
  /\ AfterGetMasterWallet(p, masterWallet, NoError, loc[p].fetches)
  /\ UNCHANGED <<registry, storage, now, periphery, wallets, nWallets, history, op>>

\* ------------------------------------------------------- getServiceWallet
\* getServiceWallet(waitForSync), lines 76-86: the configuration is read; a
\* halted service returns at once, otherwise getMasterWallet is entered and
\* reads the metadata record (line 127).
\* a slip: the halted service hands out the installed instance
HaltedHandle_Singleton == masterWallet

\* line 83: a halted service hands out no handle
HaltedHandle == Undefined

GetServiceWallet(p, wait, cfg, halted) ==
  /\ Free(p)
  /\ op' = [op EXCEPT ![p] = "gsw"]
  /\ IF halted
     THEN Return(p, HaltedHandle, ErrHalted, 0)
     ELSE /\ loc' = [loc EXCEPT ![p] = [NoLoc EXCEPT !.cfg = cfg, !.wait = wait,
                                                     !.info = doc]]
          /\ pc' = [pc EXCEPT ![p] = "gmw_info"]
          /\ ret' = [ret EXCEPT ![p] = NoRet]
  /\ UNCHANGED <<registry, storage, now, periphery, wallets, nWallets, history>>

\* line 113: the teardown clears the singleton
TeardownMaster == Undefined

\* lines 102-119: waitForWalletSync has resolved.  Not synced: stop() is
\* invoked on the singleton, if there is one.
SyncDone(p, synced) ==
  /\ pc[p] = "gsw_sync"
  /\ IF synced
     THEN /\ Return(p, loc[p].h, NoError, loc[p].fetches)
          /\ UNCHANGED wallets
     ELSE IF masterWallet # Undefined
     THEN /\ wallets' = StopWallet(wallets, masterWallet, masterWallet)
          /\ pc' = [pc EXCEPT ![p] = "gsw_stop"]
          /\ UNCHANGED <<loc, ret>>
     ELSE /\ Return(p, Undefined, ErrSync, loc[p].fetches)
          /\ UNCHANGED wallets
  /\ UNCHANGED <<registry, storage, now, periphery, nWallets, history, op>>

\* lines 112-116: the singleton's stop() has resolved; its listeners are
\* removed and the singleton is cleared.  masterWallet is read again here.
TeardownDone(p) ==
  /\ pc[p] = "gsw_stop"
  /\ IF masterWallet = Undefined
     THEN \* masterWallet.removeAllListeners() on undefined throws
          /\ Return(p, Undefined, Thrown, loc[p].fetches)
          /\ UNCHANGED masterWallet
     ELSE /\ masterWallet' = TeardownMaster
          /\ Return(p, Undefined, ErrSync, loc[p].fetches)
  /\ UNCHANGED <<masterWalletStartedAt, masterWalletLastSaveAt, storage, now, periphery,
                 wallets, nWallets, history, op>>

\* -------------------------------------------------------- saveMasterWallet
\* saveMasterWallet resolves to [ts, e].  A direct caller gets that; inside
\* createMasterWallet lines 59-70 run on: without a save date the save's
\* error is returned, otherwise the mnemonic seed of the singleton (given
\* here as the instance it belongs to), or master-wallet-info without one.
AfterSaveMasterWallet(p, ts, e) ==
  IF op[p] # "create" THEN Return(p, ts, e, 0)
  ELSE IF ts = Undefined THEN Return(p, Undefined, e, 0)
  ELSE IF masterWallet = Undefined THEN Return(p, Undefined, Thrown, 0)
  ELSE \E seed \in BOOLEAN :
          IF seed THEN Return(p, masterWallet, NoError, 0)
          ELSE Return(p, Undefined, ErrInfo, 0)

\* saveMasterWallet(wallet), line 368: the metadata record is read
SaveMasterWallet(p, w) ==
  /\ Free(p)
  /\ op' = [op EXCEPT ![p] = "save"]
  /\ loc' = [loc EXCEPT ![p] = [NoLoc EXCEPT !.w = w, !.info = doc]]
  /\ pc' = [pc EXCEPT ![p] = "sv_info"]
  /\ ret' = [ret EXCEPT ![p] = NoRet]
  /\ UNCHANGED <<registry, storage, now, periphery, wallets, nWallets, history>>

\* A save of the installed instance, as the scheduled trigger makes it.
SaveInstalled(p) ==
  /\ masterWallet # Undefined
  /\ SaveMasterWallet(p, masterWallet)

\* lines 370-380: the wallet is serialized and both writes are started
SaveStart(p) ==
  /\ pc[p] = "sv_info"
  /\ IF ~loc[p].info.exists
     THEN AfterSaveMasterWallet(p, Undefined, ErrInfo)
     ELSE /\ pc' = [pc EXCEPT ![p] = "sv_write"]
          /\ loc' = [loc EXCEPT ![p] = [NoLoc EXCEPT !.ts = now,
                                           !.prim = "pending", !.mir = "download"]]
          /\ UNCHANGED ret
  /\ UNCHANGED <<registry, storage, now, periphery, wallets, nWallets, history, op>>

\* saveWalletFirebase, lines 396-407: the primary write succeeds or fails
SaveWalletFirebase(p, ok) ==
  /\ pc[p] = "sv_write"
  /\ loc[p].prim = "pending"
  /\ IF ok
     THEN /\ blob < MaxSaves
          /\ blob' = blob + 1
          /\ loc' = [loc EXCEPT ![p].prim = "ok", ![p].wrote = blob + 1]
     ELSE /\ loc' = [loc EXCEPT ![p].prim = "failed"]
          /\ UNCHANGED blob
  /\ UNCHANGED <<registry, doc, keyFile, now, periphery, wallets, nWallets, history, pc, op, ret>>

\* saveWalletAppEngine, lines 411-427: the service-account key is downloaded
\* and staged in the temporary file, and the mirror write is started
MirrorKeyFile(p, ok) ==
  /\ pc[p] = "sv_write"
  /\ loc[p].mir = "download"
  /\ IF ok
     THEN /\ keyFile' = TRUE
          /\ loc' = [loc EXCEPT ![p].mir = "save"]
     ELSE /\ loc' = [loc EXCEPT ![p].mir = "failed"]
          /\ UNCHANGED keyFile
  /\ UNCHANGED <<registry, doc, blob, now, periphery, wallets, nWallets, history, pc, op, ret>>

\* saveWalletAppEngine, lines 427-436: the mirror write succeeds or fails;
\* after a success the temporary file is unlinked (which throws when another
\* save already removed it)
MirrorSave(p, ok) ==
  /\ pc[p] = "sv_write"
  /\ loc[p].mir = "save"
  /\ IF ok /\ keyFile
     THEN /\ keyFile' = FALSE
          /\ loc' = [loc EXCEPT ![p].mir = "ok"]
     ELSE /\ loc' = [loc EXCEPT ![p].mir = "failed"]
          /\ UNCHANGED keyFile
  /\ UNCHANGED <<registry, doc, blob, now, periphery, wallets, nWallets, history, pc, op, ret>>

\* a slip: the metadata update waits for both writes to succeed
PrimarySaved_AndMirror(p) == loc[p].prim = "ok" /\ loc[p].mir = "ok"

\* line 385: saveResults[0], the outcome of the primary write
PrimarySaved(p) == loc[p].prim = "ok"

\* lines 377-393: both writes are done; lastSaveAt is updated after a
\* successful primary write, and the timestamp is returned
SaveJoin(p) ==
  /\ pc[p] = "sv_write"
  /\ loc[p].prim \in {"ok", "failed"}
  /\ loc[p].mir \in {"ok", "failed"}
  /\ IF PrimarySaved(p)
     THEN /\ pc' = [pc EXCEPT ![p] = "sv_update"]
          /\ loc' = [loc EXCEPT ![p].info = [NoDoc EXCEPT !.lastSaveAt = now,
                                                          !.wrote = loc[p].wrote]]
          /\ UNCHANGED ret
     ELSE AfterSaveMasterWallet(p, loc[p].ts, NoError)
  /\ UNCHANGED <<registry, storage, now, periphery, wallets, nWallets, history, op>>

\* lines 390-393: the metadata update is applied
SaveUpdate(p) ==
  /\ pc[p] = "sv_update"
  /\ doc' = [doc EXCEPT !.lastSaveAt = loc[p].info.lastSaveAt,
                        !.wrote = loc[p].info.wrote]
  /\ AfterSaveMasterWallet(p, loc[p].ts, NoError)
  /\ UNCHANGED <<registry, blob, keyFile, now, periphery, wallets, nWallets, history, op>>

\* ------------------------------------------------------ backupMasterWallet
\* backupMasterWallet(), lines 440 and 76-86: getServiceWallet(false) reads
\* the configuration; a halted service is logged and the backup returns,
\* otherwise getMasterWallet is entered and reads the metadata record.
BackupMasterWallet(p, cfg, halted) ==
  /\ Free(p)
  /\ op' = [op EXCEPT ![p] = "backup"]
  /\ IF halted
     THEN Return(p, Undefined, NoError, 0)
     ELSE /\ loc' = [loc EXCEPT ![p] = [NoLoc EXCEPT !.cfg = cfg, !.info = doc]]
          /\ pc' = [pc EXCEPT ![p] = "gmw_info"]
          /\ ret' = [ret EXCEPT ![p] = NoRet]
  /\ UNCHANGED <<registry, storage, now, periphery, wallets, nWallets, history>>

\* lines 450-467: without a metadata record the backup returns; otherwise
\* the wallet is serialized and staged (which may throw, and the catch at
\* line 477 logs it) and the write of the backup blob is started
BackupStart(p, staged) ==
  /\ pc[p] = "bk_info"
  /\ IF loc[p].info.exists /\ staged
     THEN /\ pc' = [pc EXCEPT ![p] = "bk_save"]
          /\ loc' = [loc EXCEPT ![p] = [NoLoc EXCEPT !.ts = now]]
          /\ UNCHANGED ret
     ELSE Return(p, Undefined, NoError, 0)
  /\ UNCHANGED <<registry, storage, now, periphery, wallets, nWallets, history, op>>

\* lines 467-476: the update of lastBackupAt is reached only when
\* file.save resolved
BackupSaved(ok) == ok

\* lines 467-479: the write of the backup blob succeeds, and the update of
\* lastBackupAt is requested, or it fails, and the catch logs it
BackupWrite(p, ok) ==
  /\ pc[p] = "bk_save"
  /\ ok => backups < MaxBackups
  /\ backups' = IF ok THEN backups + 1 ELSE backups
  /\ IF BackupSaved(ok)
     THEN /\ pc' = [pc EXCEPT ![p] = "bk_update"]
          /\ loc' = [loc EXCEPT ![p].saved = ok]
          /\ UNCHANGED ret
     ELSE Return(p, Undefined, NoError, 0)
  /\ UNCHANGED <<registry, storage, now, waits, created, remote, wallets, nWallets,
                 history, op>>

\* lines 472-479: the update of lastBackupAt is applied, or fails and is
\* logged; the backup returns
BackupUpdate(p, ok) ==
  /\ pc[p] = "bk_update"
  /\ doc' = IF ok THEN [doc EXCEPT !.lastBackupAt = loc[p].ts] ELSE doc
  /\ Return(p, Undefined, NoError, 0)
  /\ UNCHANGED <<registry, blob, keyFile, now, periphery, wallets, nWallets, history, op>>

\* ------------------------------------------------------ createMasterWallet
\* createMasterWallet(serviceConfig), lines 26-34: walletDoc is built with
\* lastSaveAt = Date.now() and its creation is requested
CreateMasterWallet(p, cfg) ==
  /\ Free(p)
  /\ op' = [op EXCEPT ![p] = "create"]
  /\ loc' = [loc EXCEPT ![p] = [NoLoc EXCEPT !.cfg = cfg, !.ts = now]]
  /\ pc' = [pc EXCEPT ![p] = "cr_create"]
  /\ ret' = [ret EXCEPT ![p] = NoRet]
  /\ UNCHANGED <<registry, storage, now, periphery, wallets, nWallets, history>>

\* a slip: the record is written with set(), which overwrites
CanCreate_Overwrite == TRUE

\* line 34: firestore create() fails when the document exists
CanCreate == ~doc.exists

\* lines 34-46: the creation of the record succeeds or fails; after a
\* success the wallet is created (which may throw) and becomes the
\* singleton, and its start() is awaited
CreateDoc(p, ok, made) ==
  /\ pc[p] = "cr_create"
  /\ IF ok /\ CanCreate
     THEN /\ doc' = [exists |-> TRUE, lastSaveAt |-> loc[p].ts, lastBackupAt |-> 0,
                          wrote |-> 0]
          /\ created' = created + 1
          /\ IF made
             THEN /\ nWallets < MaxWallets
                  /\ nWallets' = nWallets + 1
                  /\ wallets' = OpenWallet(nWallets + 1, loc[p].cfg)
                  /\ masterWallet' = nWallets + 1
                  /\ pc' = [pc EXCEPT ![p] = "cr_start"]
                  /\ loc' = [loc EXCEPT ![p] = NoLoc]
                  /\ UNCHANGED ret
             ELSE /\ Return(p, Undefined, ErrUnknown, 0)
                  /\ UNCHANGED <<masterWallet, wallets, nWallets>>
     ELSE /\ Return(p, Undefined, ErrInfo, 0)
          /\ UNCHANGED <<doc, created, masterWallet, wallets, nWallets>>
  /\ UNCHANGED <<masterWalletStartedAt, masterWalletLastSaveAt, blob, keyFile, now,
                 waits, backups, remote, history, op>>

\* lines 46-55: start() resolves, and the 20 seconds of grace begin, or it
\* rejects
CreateStarted(p, ok) ==
  /\ pc[p] = "cr_start"
  /\ IF ok
     THEN /\ pc' = [pc EXCEPT ![p] = "cr_sleep"]
          /\ UNCHANGED <<loc, ret>>
     ELSE Return(p, Undefined, ErrUnknown, 0)
  /\ UNCHANGED <<registry, storage, now, periphery, wallets, nWallets, history, op>>

\* lines 57 and 368: the sleep is over; saveMasterWallet(masterWallet) is
\* entered and reads the metadata record
CreateSave(p) ==
  /\ pc[p] = "cr_sleep"
  /\ loc' = [loc EXCEPT ![p] = [NoLoc EXCEPT !.w = masterWallet, !.info = doc]]
  /\ pc' = [pc EXCEPT ![p] = "sv_info"]
  /\ UNCHANGED <<registry, storage, now, periphery, wallets, nWallets, history, op, ret>>

\* --------------------------------------------------- warmupAppEngineWallet
\* warmupAppEngineWallet(jwtToken, serviceConfig), line 575: the status of
\* the App Engine wallet is requested
WarmupAppEngineWallet(p, cfg) ==
  /\ Free(p)
  /\ op' = [op EXCEPT ![p] = "warmup"]
  /\ loc' = [loc EXCEPT ![p] = [NoLoc EXCEPT !.cfg = cfg]]
  /\ pc' = [pc EXCEPT ![p] = "wu_status"]
  /\ ret' = [ret EXCEPT ![p] = NoRet]
  /\ UNCHANGED <<registry, storage, now, periphery, wallets, nWallets, history>>

\* lines 581-593: restartRequired
RestartRequired(status, cfg) ==
  \/ ~status.started
  \/ status.peer[1] # cfg[1]
  \/ status.uptime > MaxUptime

\* POST /start with startBody, lines 613-619: the App Engine wallet is
\* started on the peer of the body
StartRemote(cfg) ==
  [remote EXCEPT !.started = TRUE, !.peer = cfg, !.uptime = 0, !.starts = @ + 1]

\* a slip: the transaction call is made whatever the warmup returned
WalletReady_Ignored(ready) == TRUE

\* lines 233 and 276: walletReady
WalletReady(ready) == ready

\* warmupAppEngineWallet resolves to ready, the App Engine wallet being r.
\* A direct caller gets that; inside prepareAccountTransaction and
\* sendPreparedTransaction lines 233-253 / 276-292 run on: not ready gives
\* unknown-error, otherwise the transaction call is made.
AfterWarmup(p, ready, r) ==
  IF op[p] = "warmup"
  THEN /\ Return(p, Undefined, IF ready THEN Ready ELSE NotReady, 0)
       /\ remote' = r
  ELSE IF WalletReady(ready)
  THEN /\ r.rpcs < MaxRpcs
       /\ remote' = [r EXCEPT !.rpcs = @ + 1]
       /\ pc' = [pc EXCEPT ![p] = "tx_rpc"]
       /\ loc' = [loc EXCEPT ![p] = [NoLoc EXCEPT !.token = loc[p].token,
                                                  !.ready = ready]]
       /\ UNCHANGED ret
  ELSE /\ Return(p, Undefined, ErrUnknown, 0)
       /\ remote' = r

\* lines 575-600 and 603-619: the status arrives, or the request fails and
\* the warmup returns false; with a status and no restart required the
\* warmup returns true, otherwise the start call is made
WarmupStatus(p, fetched) ==
  /\ pc[p] = "wu_status"
  /\ IF ~fetched
     THEN AfterWarmup(p, FALSE, remote)
     ELSE IF ~RestartRequired(remote, loc[p].cfg)
     THEN AfterWarmup(p, TRUE, remote)
     ELSE /\ remote.starts < MaxStarts
          /\ remote' = StartRemote(loc[p].cfg)
          /\ pc' = [pc EXCEPT ![p] = "wu_start"]
          /\ loc' = [loc EXCEPT ![p].cfg = NoLoc.cfg]
          /\ UNCHANGED ret
  /\ UNCHANGED <<registry, storage, now, waits, created, backups, wallets, nWallets,
                 history, op>>

\* lines 619-625: the response of the start call arrives and its started
\* field is returned, or the request fails and the warmup returns false
WarmupStarted(p, ok) ==
  /\ pc[p] = "wu_start"
  /\ AfterWarmup(p, ok /\ remote.started, remote)
  /\ UNCHANGED <<registry, storage, now, waits, created, backups, wallets, nWallets,
                 history, op>>

\* ------------------------ prepareAccountTransaction, sendPreparedTransaction
\* prepareAccountTransaction(serviceConfig, ...) or
\* sendPreparedTransaction(hash, serviceConfig), lines 222 / 267: the bearer
\* token is requested.  kind is "prepare" or "send".
Transaction(p, kind, cfg) ==
  /\ Free(p)
  /\ op' = [op EXCEPT ![p] = kind]
  /\ loc' = [loc EXCEPT ![p] = [NoLoc EXCEPT !.cfg = cfg]]
  /\ pc' = [pc EXCEPT ![p] = "tx_token"]
  /\ ret' = [ret EXCEPT ![p] = NoRet]
  /\ UNCHANGED <<registry, storage, now, periphery, wallets, nWallets, history>>

\* lines 222-229 / 267-274 and 575: without a token the token's error is
\* returned; with one the warmup is entered and requests the status
TransactionToken(p, ok) ==
  /\ pc[p] = "tx_token"
  /\ IF ok
     THEN /\ pc' = [pc EXCEPT ![p] = "wu_status"]
          /\ loc' = [loc EXCEPT ![p].token = TRUE]
          /\ UNCHANGED ret
     ELSE Return(p, Undefined, ErrUnknown, 0)
  /\ UNCHANGED <<registry, storage, now, periphery, wallets, nWallets, history, op>>

\* lines 253-260 / 292-298: the response of the transaction call arrives
\* (the result is given here as handle 1), or the call fails: with a
\* response of the server its error is returned, without one
\* error.response.data throws
TransactionDone(p, ok, responded) ==
  /\ pc[p] = "tx_rpc"
  /\ IF ok THEN Return(p, 1, NoError, 0)
     ELSE IF responded THEN Return(p, Undefined, ErrUnknown, 0)
     ELSE Return(p, Undefined, Thrown, 0)
  /\ UNCHANGED <<registry, storage, now, periphery, wallets, nWallets, history, op>>

\* ------------------------------------------------------- waitForWalletSync
\* getWalletSyncInfo, lines 507-516
GetWalletSyncInfo(w) ==
  [walletHeight |-> wallets[w].height,
   networkHeight |-> wallets[w].network,
   heightDelta |-> wallets[w].network - wallets[w].height]

\* a slip: a delta of 2 blocks is not taken as synced
Synced_Strict(info) == info.heightDelta < 2

\* lines 329 and 346: at most 2 blocks behind counts as synced
Synced(info) == info.heightDelta <= 2

\* line 347
BlocksProcessed(start, after) == after.walletHeight - start.walletHeight

\* a slip: 2 blocks processed still count as a stalled node
NotProcessingBlocks_AtMostTwo(start, after) == BlocksProcessed(start, after) <= 2

\* line 353: the current node is not processing blocks
NotProcessingBlocks(start, after) == BlocksProcessed(start, after) < 2

\* Promise.race, line 364: the first branch to settle gives the result; a
\* settled promise ignores the other branch
Resolve(wt, v, branch) ==
  IF wt.result = "none" THEN [wt EXCEPT !.result = v, !.by = branch] ELSE wt

\* the awaiting caller of a wait that has settled goes on
Resume(ws) ==
  [p \in Procs |-> IF pc[p] = "wfs_race" /\ ws[p].result # "none" THEN "done"
                   ELSE pc[p]]

\* waitForWalletSync(wallet, timeout), lines 324-364, up to Promise.race: with
\* a delta of at most 2 it returns true; otherwise the listener is registered
\* and the sleep is started.  A handler slot is taken again only when the
\* sleep of its previous wait has run.
WaitForWalletSync(p, w) ==
  /\ Free(p)
  /\ waits[p].timer \notin {"armed", "drop"}
  /\ wallets[w].st = "started"
  /\ op' = [op EXCEPT ![p] = "wfs"]
  /\ ret' = [ret EXCEPT ![p] = NoRet]
  /\ LET syncInfoStart == GetWalletSyncInfo(w)
     IN IF Synced(syncInfoStart)
        THEN /\ waits' = [waits EXCEPT ![p] =
                            [NoWait EXCEPT !.w = w, !.start = syncInfoStart,
                                           !.result = "true", !.by = "immediate"]]
             /\ pc' = [pc EXCEPT ![p] = "done"]
        ELSE /\ waits' = [waits EXCEPT ![p] =
                            [NoWait EXCEPT !.w = w, !.start = syncInfoStart,
                                           !.listening = TRUE, !.timer = "armed"]]
             /\ pc' = [pc EXCEPT ![p] = "wfs_race"]
  /\ UNCHANGED <<registry, storage, now, wallets, nWallets, history, loc, created,
                 backups, remote>>

\* The wallet emits 'sync' (it does when it has caught up with the height
\* its daemon reports): every listener registered on it runs, lines 335-341.
\* A listener whose flag is set does nothing.
SyncEvent(w) ==
  /\ wallets[w].st = "started"
  /\ wallets[w].height >= wallets[w].network
  /\ \E p \in Procs : waits[p].listening /\ waits[p].w = w /\ ~waits[p].flag
  /\ waits' = [p \in Procs |->
                 IF waits[p].listening /\ waits[p].w = w /\ ~waits[p].flag
                 THEN Resolve([waits[p] EXCEPT !.flag = TRUE], "true", "event")
                 ELSE waits[p]]
  /\ pc' = Resume(waits')
  /\ UNCHANGED <<registry, storage, now, wallets, nWallets, history, op, loc, ret,
                 created, backups, remote>>

\* lines 344-362: the sleep is over.  Not synced and fewer than 2 blocks
\* processed: dropCurrentNode is called and awaited; otherwise p2 settles.
Timeout(p) ==
  /\ waits[p].timer = "armed"
  /\ LET syncInfoAfterWait == GetWalletSyncInfo(waits[p].w)
         synced == Synced(syncInfoAfterWait)
     IN IF ~synced /\ NotProcessingBlocks(waits[p].start, syncInfoAfterWait)
        THEN /\ waits' = [waits EXCEPT ![p].timer = "drop", ![p].dropped = @ + 1]
             /\ UNCHANGED pc
        ELSE /\ waits' = [waits EXCEPT ![p] =
                            Resolve([@ EXCEPT !.timer = "done"],
                                    IF synced THEN "true" ELSE "false", "timeout")]
             /\ pc' = Resume(waits')
  /\ UNCHANGED <<registry, storage, now, wallets, nWallets, history, op, loc, ret,
                 created, backups, remote>>

\* lines 357-361: dropCurrentNode has resolved; p2 settles to false
DropDone(p) ==
  /\ waits[p].timer = "drop"
  /\ waits' = [waits EXCEPT ![p] = Resolve([@ EXCEPT !.timer = "done"],
                                           "false", "timeout")]
  /\ pc' = Resume(waits')
  /\ UNCHANGED <<registry, storage, now, wallets, nWallets, history, op, loc, ret,
                 created, backups, remote>>

\* The wallet processes a block.
ProcessBlock(w) ==
  /\ wallets[w].st = "started"
  /\ wallets[w].height < wallets[w].network
  /\ wallets' = [wallets EXCEPT ![w].height = @ + 1]
  /\ UNCHANGED <<registry, storage, now, periphery, nWallets, history, pc, op, loc, ret>>

\* The wallet's daemon reports another network height.
NetworkReport(w, n) ==
  /\ wallets[w].st = "started"
  /\ n # wallets[w].network
  /\ wallets' = [wallets EXCEPT ![w].network = n]
  /\ UNCHANGED <<registry, storage, now, periphery, nWallets, history, pc, op, loc, ret>>

\* ------------------------------------------------------------------- spec
\* The steps of getMasterWallet calls in flight.
AcquireStep ==
  \/ \E p \in Procs : Decide(p)
  \/ \E p \in Procs : StringInfo(p)
  \/ \E p \in Procs, f \in BOOLEAN, d \in BOOLEAN : Download(p, f, d)
  \/ \E p \in Procs : Started(p)
  \/ \E p \in Procs : Swap(p)
  \/ \E p \in Procs : Install(p)
  \/ \E p \in Procs : Stopped(p)

\* Concurrent direct getMasterWallet calls while time passes.
Next ==
  \/ Tick
  \/ \E p \in Procs, cfg \in Peers, force \in BOOLEAN : GetMasterWallet(p, cfg, force)
  \/ AcquireStep

Spec == Init /\ [][Next]_vars

\* The peer every call of SpecSave is configured with.
SavePeer == <<"a", 1>>

\* Concurrent getMasterWallet and saveMasterWallet calls while time passes;
\* what is saved is the installed instance.
NextSave ==
  \/ Tick
  \/ \E p \in Procs : GetMasterWallet(p, SavePeer, FALSE)
  \/ AcquireStep
  \/ \E p \in Procs : SaveInstalled(p)
  \/ \E p \in Procs : SaveStart(p)
  \/ \E p \in Procs, ok \in BOOLEAN : SaveWalletFirebase(p, ok)
  \/ \E p \in Procs, ok \in BOOLEAN : MirrorKeyFile(p, ok)
  \/ \E p \in Procs, ok \in BOOLEAN : MirrorSave(p, ok)
  \/ \E p \in Procs : SaveJoin(p)
  \/ \E p \in Procs : SaveUpdate(p)

SpecSave == Init /\ [][NextSave]_vars

\* Concurrent getServiceWallet calls.
NextService ==
  \/ \E p \in Procs, wait \in BOOLEAN, cfg \in Peers, halted \in BOOLEAN :
        GetServiceWallet(p, wait, cfg, halted)
  \/ AcquireStep
  \/ \E p \in Procs, synced \in BOOLEAN : SyncDone(p, synced)
  \/ \E p \in Procs : TeardownDone(p)

SpecService == Init /\ [][NextService]_vars

\* The steps of saveMasterWallet calls in flight.
SaveStep ==
  \/ \E p \in Procs : SaveStart(p)
  \/ \E p \in Procs, ok \in BOOLEAN : SaveWalletFirebase(p, ok)
  \/ \E p \in Procs, ok \in BOOLEAN : MirrorKeyFile(p, ok)
  \/ \E p \in Procs, ok \in BOOLEAN : MirrorSave(p, ok)
  \/ \E p \in Procs : SaveJoin(p)
  \/ \E p \in Procs : SaveUpdate(p)

\* Concurrent createMasterWallet calls while time passes.
NextCreate ==
  \/ Tick
  \/ \E p \in Procs, cfg \in Peers : CreateMasterWallet(p, cfg)
  \/ \E p \in Procs, ok \in BOOLEAN, made \in BOOLEAN : CreateDoc(p, ok, made)
  \/ \E p \in Procs, ok \in BOOLEAN : CreateStarted(p, ok)
  \/ \E p \in Procs : CreateSave(p)
  \/ SaveStep

SpecCreate == Init /\ [][NextCreate]_vars

\* Direct getMasterWallet calls next to getServiceWallet calls that wait for
\* the sync.
NextRegistry ==
  \/ \E p \in Procs, cfg \in Peers : GetMasterWallet(p, cfg, FALSE)
  \/ \E p \in Procs : GetServiceWallet(p, TRUE, SavePeer, FALSE)
  \/ AcquireStep
  \/ \E p \in Procs, synced \in BOOLEAN : SyncDone(p, synced)
  \/ \E p \in Procs : TeardownDone(p)

SpecRegistry == Init /\ [][NextRegistry]_vars

\* The steps of backupMasterWallet calls in flight, after their
\* getServiceWallet.
BackupStep ==
  \/ \E p \in Procs, staged \in BOOLEAN : BackupStart(p, staged)
  \/ \E p \in Procs, ok \in BOOLEAN : BackupWrite(p, ok)
  \/ \E p \in Procs, ok \in BOOLEAN : BackupUpdate(p, ok)

\* backupMasterWallet calls next to getServiceWallet calls that wait for the
\* sync.
NextBackup ==
  \/ \E p \in Procs, cfg \in Peers, halted \in BOOLEAN : BackupMasterWallet(p, cfg, halted)
  \/ \E p \in Procs : GetServiceWallet(p, TRUE, SavePeer, FALSE)
  \/ AcquireStep
  \/ \E p \in Procs, synced \in BOOLEAN : SyncDone(p, synced)
  \/ \E p \in Procs : TeardownDone(p)
  \/ BackupStep

SpecBackup == Init /\ [][NextBackup]_vars

\* Module load next to an App Engine wallet in some state: never started,
\* or started on some peer some time ago.
InitWarmup ==
  /\ masterWallet = Undefined
  /\ masterWalletStartedAt = Undefined
  /\ masterWalletLastSaveAt = Undefined
  /\ doc = [exists |-> TRUE, lastSaveAt |-> 1, lastBackupAt |-> 0, wrote |-> 0]
  /\ blob = 1
  /\ keyFile = FALSE
  /\ now = 1
  /\ wallets = [i \in WalletIds |-> NoWallet]
  /\ nWallets = 0
  /\ installedStartedAt = Undefined
  /\ installs = [i \in 0..MaxWallets |-> 0]
  /\ pc = [p \in Procs |-> "idle"]
  /\ op = [p \in Procs |-> "none"]
  /\ loc = [p \in Procs |-> NoLoc]
  /\ ret = [p \in Procs |-> NoRet]
  /\ waits = [p \in Procs |-> NoWait]
  /\ created = 0
  /\ backups = 0
  /\ \E st \in BOOLEAN, peer \in RemotePeers, up \in {0, MaxUptime, MaxUptime + 1} :
       remote = IF st THEN [NoRemote EXCEPT !.started = TRUE, !.peer = peer,
                                            !.uptime = up]
                ELSE NoRemote

\* Concurrent warmupAppEngineWallet calls.
NextWarmup ==
  \/ \E p \in Procs, cfg \in RemotePeers : WarmupAppEngineWallet(p, cfg)
  \/ \E p \in Procs, fetched \in BOOLEAN : WarmupStatus(p, fetched)
  \/ \E p \in Procs, ok \in BOOLEAN : WarmupStarted(p, ok)

SpecWarmup == InitWarmup /\ [][NextWarmup]_vars

\* Concurrent prepareAccountTransaction and sendPreparedTransaction calls.
NextTransaction ==
  \/ \E p \in Procs, kind \in {"prepare", "send"}, cfg \in RemotePeers :
        Transaction(p, kind, cfg)
  \/ \E p \in Procs, ok \in BOOLEAN : TransactionToken(p, ok)
  \/ \E p \in Procs, fetched \in BOOLEAN : WarmupStatus(p, fetched)
  \/ \E p \in Procs, ok \in BOOLEAN : WarmupStarted(p, ok)
  \/ \E p \in Procs, ok \in BOOLEAN, responded \in BOOLEAN :
        TransactionDone(p, ok, responded)

SpecTransaction == InitWarmup /\ [][NextTransaction]_vars

\* A deployment whose instance was installed by a first getMasterWallet call
\* and reports some heights.
InitSync ==
  /\ masterWallet = 1
  /\ masterWalletStartedAt = 1
  /\ masterWalletLastSaveAt = 1
  /\ doc = [exists |-> TRUE, lastSaveAt |-> 1, lastBackupAt |-> 0, wrote |-> 0]
  /\ blob = 1
  /\ keyFile = FALSE
  /\ now = 1
  /\ \E h \in 0..MaxHeight, n \in 0..MaxHeight :
       wallets = [i \in WalletIds |->
                    IF i = 1
                    THEN [NoWallet EXCEPT !.st = "started", !.height = h, !.network = n]
                    ELSE NoWallet]
  /\ nWallets = 1
  /\ installedStartedAt = 1
  /\ installs = [i \in 0..MaxWallets |-> IF i = 0 THEN 1 ELSE 0]
  /\ pc = [p \in Procs |-> "idle"]
  /\ op = [p \in Procs |-> "none"]
  /\ loc = [p \in Procs |-> NoLoc]
  /\ ret = [p \in Procs |-> NoRet]
  /\ waits = [p \in Procs |-> NoWait]
  /\ created = 0
  /\ backups = 0
  /\ remote = NoRemote

\* Concurrent waitForWalletSync calls on the installed instance while it
\* processes blocks and its daemon reports heights.
NextSync ==
  \/ \E p \in Procs : WaitForWalletSync(p, masterWallet)
  \/ SyncEvent(masterWallet)
  \/ \E p \in Procs : Timeout(p)
  \/ \E p \in Procs : DropDone(p)
  \/ ProcessBlock(masterWallet)
  \/ \E n \in 0..MaxHeight : NetworkReport(masterWallet, n)

SpecSync == InitSync /\ [][NextSync]_vars

\* ----------------------------------------------------------------- claims
\* Steps of handler p, as seen from outside.
DecideStep(p) == pc[p] = "gmw_info" /\ pc'[p] # "gmw_info"
DownloadStep(p) == pc[p] = "gmw_download" /\ loc'[p] # loc[p]
SwapStep(p) == pc[p] = "gmw_rewind" /\ pc'[p] # "gmw_rewind"

\* C1: of the calls that found the same instance (or none) and decided to
\* build a replacement, at most one installs its replacement.
C1_SingleInstaller == \A i \in 0..MaxWallets : installs[i] <= 1

\* C2: no wallet instance has stop() invoked on it more than once.
C2_NoDoubleStop == \A i \in WalletIds : wallets[i].stops <= 1

\* Two calls found instance i, both replaced it, and i was stopped once.
C2_Witness ==
  \E i \in WalletIds : installs[i] >= 2 /\ wallets[i].stops = 1

\* C3: once an instance has been installed the singleton always refers to an
\* instance nobody has stopped, and stop() is invoked on a superseded
\* instance only while the singleton already refers to another instance.
C3_NeverZeroActive ==
  /\ (\E i \in 0..MaxWallets : installs[i] > 0) =>
        /\ masterWallet # Undefined
        /\ wallets[masterWallet].stops = 0
  /\ \A i \in WalletIds :
        wallets[i].stops > 0 =>
           /\ wallets[i].stopSaw # Undefined
           /\ wallets[i].stopSaw # i

\* Both handlers are replacing the installed instance and one already swapped.
C3_Witness ==
  \E p \in Procs, q \in Procs :
     /\ pc[p] = "gmw_stop"
     /\ pc[q] = "gmw_rewind"
     /\ loc[q].branch = "restart"
     /\ wallets[loc[q].seen].stops = 1

\* C4: peer unchanged, alive less than 10 minutes, persisted lastSaveAt equal
\* to the baseline and forceRestart false: getMasterWallet returns the
\* installed instance and changes nothing (no blob fetch, no new instance,
\* no stop, singleton, start time and baseline unchanged).
C4_KeepIsPure ==
  [][\A p \in Procs :
       ( /\ DecideStep(p)
         /\ loc[p].info.exists
         /\ masterWallet # Undefined
         /\ wallets[masterWallet].peer = loc[p].cfg
         /\ now < installedStartedAt + WalletMaxLifetime
         /\ doc.lastSaveAt = masterWalletLastSaveAt
         /\ ~loc[p].force )
       => /\ pc'[p] = "done"
          /\ ret'[p] = [h |-> masterWallet, e |-> NoError, fetches |-> 0]
          /\ UNCHANGED <<registry, storage, wallets, nWallets, history>>]_vars

\* A call returned the instance installed 5 minutes ago without a blob fetch.
C4_Witness ==
  \E p \in Procs :
     /\ pc[p] = "done"
     /\ ret[p] = [h |-> masterWallet, e |-> NoError, fetches |-> 0]
     /\ masterWallet # Undefined
     /\ now = installedStartedAt + ClockStep

\* C5: when the installed instance's host or port differs from the config's,
\* the call decides to restart; the instance it builds is bound to the
\* config's peer; and when it installs it, it is the singleton and the
\* instance the call had found has had stop() invoked exactly once.
C5_PeerChangeRestarts ==
  [][\A p \in Procs :
       /\ ( /\ DecideStep(p)
            /\ loc[p].info.exists
            /\ masterWallet # Undefined
            /\ wallets[masterWallet].peer # loc[p].cfg )
          => /\ pc'[p] = "gmw_str_info"
             /\ loc'[p].branch = "restart"
       /\ (DownloadStep(p) /\ pc'[p] = "gmw_start")
          => wallets'[loc'[p].newW].peer = loc[p].cfg
       /\ ( /\ SwapStep(p)
            /\ loc[p].branch = "restart"
            /\ wallets[loc[p].seen].peer # wallets[loc[p].newW].peer )
          => /\ masterWallet' = loc[p].newW
             /\ wallets'[loc[p].seen].stops = 1]_vars

\* An instance bound to another peer replaced a stopped one.
C5_Witness ==
  \E i \in WalletIds :
     /\ wallets[i].stops = 1
     /\ masterWallet # Undefined
     /\ wallets[i].stopSaw = masterWallet
     /\ wallets[masterWallet].peer # wallets[i].peer

\* C6: whenever the policy is evaluated against an installed instance that
\* was started at least 10 minutes ago, the call decides to restart.
C6_LifetimeOfInstalled ==
  [][\A p \in Procs :
       ( /\ DecideStep(p)
         /\ loc[p].info.exists
         /\ masterWallet # Undefined
         /\ now >= installedStartedAt + WalletMaxLifetime )
       => /\ pc'[p] = "gmw_str_info"
          /\ loc'[p].branch = "restart"]_vars

\* C7: a call that finds the persisted lastSaveAt different from the baseline
\* fetches the blob; when it installs the instance it built, that instance
\* is the singleton, the baseline is the lastSaveAt the call read, and the
\* instance the call had found has had stop() invoked.
C7_SaveTriggersReload ==
  [][\A p \in Procs :
       /\ ( /\ DecideStep(p)
            /\ loc[p].info.exists
            /\ masterWallet # Undefined
            /\ loc[p].info.lastSaveAt # masterWalletLastSaveAt )
          => /\ pc'[p] = "gmw_str_info"
             /\ loc'[p].branch = "restart"
       /\ ( /\ SwapStep(p)
            /\ loc[p].branch = "restart"
            /\ loc[p].info.lastSaveAt # masterWalletLastSaveAt )
          => /\ masterWallet' = loc[p].newW
             /\ masterWalletLastSaveAt' = loc[p].info.lastSaveAt
             /\ wallets'[loc[p].seen].stops >= 1]_vars

\* C8: every started instance that is neither the singleton nor still being
\* built by a call in flight has had stop() invoked on it.
C8_NoRunningOrphan ==
  \A i \in WalletIds :
     ( /\ wallets[i].st = "started"
       /\ i # masterWallet
       /\ \A p \in Procs : loc[p].newW # i )
     => wallets[i].stops >= 1

\* C9: a missing metadata record gives master-wallet-info, a blob that cannot
\* be fetched or decrypted gives master-wallet-file, both without a handle,
\* and no call makes more than one blob load attempt.
C9_Errors ==
  /\ [](\A p \in Procs :
          /\ loc[p].fetches <= 1
          /\ ret[p].fetches <= 1
          /\ ret[p].e \in {ErrInfo, ErrFile} => ret[p].h = Undefined)
  /\ [][\A p \in Procs :
          /\ (DecideStep(p) /\ ~loc[p].info.exists)
             => /\ pc'[p] = "done"
                /\ ret'[p] = [h |-> Undefined, e |-> ErrInfo, fetches |-> 0]
          /\ (DownloadStep(p) /\ (blob = 0 \/ pc'[p] # "gmw_start"))
             => /\ pc'[p] = "done"
                /\ ret'[p] = [h |-> Undefined, e |-> ErrFile, fetches |-> 1]]_vars

\* A call whose single blob load attempt failed returned master-wallet-file.
C9_Witness ==
  \E p \in Procs :
     /\ pc[p] = "done"
     /\ ret[p] = [h |-> Undefined, e |-> ErrFile, fetches |-> 1]
     /\ blob > 0

\* C10: a getServiceWallet call whose sync wait failed returns
\* master-wallet-sync-failed without a handle, and when it returns the
\* singleton is cleared.
C10_SyncFailureClears ==
  [][\A p \in Procs :
       ( /\ op[p] = "gsw"
         /\ pc[p] \in {"gsw_sync", "gsw_stop"}
         /\ pc'[p] = "done"
         /\ ret'[p].e # NoError )
       => /\ ret'[p].e = ErrSync
          /\ ret'[p].h = Undefined
          /\ masterWallet' = Undefined]_vars

\* Steps of the timeout branch of handler p's wait.
TimeoutStep(p) == waits[p].timer = "armed" /\ waits'[p].timer # "armed"
DropDoneStep(p) == waits[p].timer = "drop" /\ waits'[p].timer # "drop"

\* C11: when the sleep of a wait that started more than 2 blocks behind runs
\* out with the wallet still more than 2 blocks behind, dropCurrentNode is
\* called if and only if fewer than 2 blocks were processed since the start,
\* and unless a sync event settled the wait, it returns false.
C11_TimeoutReturnsFalse ==
  [][\A p \in Procs :
          /\ ( /\ TimeoutStep(p)
               /\ wallets[waits[p].w].network - wallets[waits[p].w].height > 2 )
             => /\ waits[p].start.heightDelta > 2
                /\ waits'[p].dropped = 1 <=>
                      wallets[waits[p].w].height - waits[p].start.walletHeight < 2
                /\ (waits'[p].dropped = 0 /\ waits[p].result = "none")
                      => (waits'[p].result = "false" /\ pc'[p] = "done")
          /\ (DropDoneStep(p) /\ waits[p].result = "none")
             => (waits'[p].result = "false" /\ pc'[p] = "done")]_vars

\* One wait timed out on a stalled node, another after 2 processed blocks.
C11_Witness ==
  \E p \in Procs, q \in Procs :
     /\ waits[p].by = "timeout" /\ waits[p].result = "false"
     /\ waits[p].dropped = 1 /\ waits[p].timer = "done"
     /\ waits[q].by = "timeout" /\ waits[q].result = "false"
     /\ waits[q].dropped = 0

\* C12: once a wait has settled, its timeout branch calls dropCurrentNode no
\* more and nothing changes its result; a sync event after a settlement
\* through the timeout branch changes neither.
C12_LoserHasNoEffect ==
  [][\A p \in Procs :
       (waits[p].result # "none" /\ waits[p].timer \in {"armed", "drop"})
       => /\ waits'[p].dropped = waits[p].dropped
          /\ waits'[p].result = waits[p].result
          /\ waits'[p].by = waits[p].by
          /\ pc'[p] = pc[p]]_vars

\* C13: a wait that starts at most 2 blocks behind has returned true, with
\* no listener registered, no sleep started and no dropCurrentNode call.
C13_SyncedReturnsAtOnce ==
  \A p \in Procs :
     (waits[p].w # Undefined /\ waits[p].start.heightDelta <= 2)
     => /\ waits[p].result = "true"
        /\ waits[p].by = "immediate"
        /\ pc[p] = "done"
        /\ ~waits[p].listening
        /\ waits[p].timer = "none"
        /\ waits[p].dropped = 0

\* A wait that started exactly 2 blocks behind returned at once while the
\* other handler is suspended in its wait.
C13_Witness ==
  \E p \in Procs, q \in Procs :
     /\ waits[p].by = "immediate"
     /\ waits[p].start.heightDelta = 2
     /\ pc[q] = "wfs_race"

\* Steps of handler p's saveMasterWallet, as seen from outside.
SaveJoinStep(p) == pc[p] = "sv_write" /\ pc'[p] # "sv_write"
SaveUpdateStep(p) == pc[p] = "sv_update" /\ pc'[p] # "sv_update"

\* C14: when both writes of a save are done, the lastSaveAt update is issued
\* if and only if the primary write succeeded, whatever the mirror write
\* did; the update then sets lastSaveAt; and nothing else changes lastSaveAt.
C14_LastSaveAtGate ==
  [][/\ \A p \in Procs :
          /\ SaveJoinStep(p) => (pc'[p] = "sv_update" <=> loc[p].prim = "ok")
          /\ SaveUpdateStep(p) => /\ loc[p].prim = "ok"
                                  /\ doc'.lastSaveAt = loc[p].info.lastSaveAt
     /\ doc'.lastSaveAt # doc.lastSaveAt => \E p \in Procs : SaveUpdateStep(p)]_vars

\* A save whose mirror write failed is updating lastSaveAt.
C14_Witness ==
  \E p \in Procs :
     /\ pc[p] = "sv_update"
     /\ loc[p].prim = "ok"
     /\ loc[p].mir = "failed"

\* C15: a save returns a timestamp only if its primary write succeeded, and
\* an error without a timestamp when the primary write failed.
C15_ResultReflectsPrimary ==
  [][\A p \in Procs :
       ( /\ op[p] = "save"
         /\ pc[p] \in {"sv_write", "sv_update"}
         /\ pc'[p] = "done" )
       => IF loc[p].prim = "ok"
          THEN ret'[p].h # Undefined /\ ret'[p].e = NoError
          ELSE ret'[p].h = Undefined /\ ret'[p].e # NoError]_vars

\* C16: when the mirror write of a save that staged the temporary key file
\* is over, by success or by failure, the file no longer exists.
C16_KeyFileRemoved ==
  [][\A p \in Procs :
       (loc[p].mir = "save" /\ loc'[p].mir \in {"ok", "failed"})
       => ~keyFile']_vars

\* Steps of handler p's createMasterWallet, as seen from outside.
CreateDocStep(p) == pc[p] = "cr_create" /\ pc'[p] # "cr_create"

\* C18: a createMasterWallet call that finds the metadata record in place
\* returns master-wallet-info with no seed and leaves the record as it is;
\* no call creates a record over an existing one, and at most one call gets
\* past the creation of the record.
C18_CreateOnce ==
  /\ [](created <= 1)
  /\ [][\A p \in Procs :
          /\ (CreateDocStep(p) /\ doc.exists)
             => /\ pc'[p] = "done"
                /\ ret'[p] = [h |-> Undefined, e |-> ErrInfo, fetches |-> 0]
                /\ doc' = doc
                /\ created' = created
          /\ (CreateDocStep(p) /\ created' # created)
             => ~doc.exists /\ doc'.exists]_vars

\* One call created the record; another, at a later time, was refused and
\* the record still has the first call's lastSaveAt.
C18_Witness ==
  \E p \in Procs, q \in Procs :
     /\ created = 1
     /\ op[p] = "create" /\ pc[p] \in {"cr_start", "cr_sleep"}
     /\ op[q] = "create" /\ pc[q] = "done"
     /\ ret[q] = [h |-> Undefined, e |-> ErrInfo, fetches |-> 0]
     /\ doc.lastSaveAt < now

\* C19: createMasterWallet returns the seed only if the primary write of
\* its save succeeded.
C19_SeedOnlyIfPersisted ==
  [][\A p \in Procs :
       ( /\ op[p] = "create"
         /\ pc[p] # "done"
         /\ pc'[p] = "done"
         /\ ret'[p].e = NoError )
       => loc[p].prim = "ok"]_vars

\* C17: no backupMasterWallet call ends by throwing, and lastBackupAt
\* changes only through a backup whose blob write succeeded.
C17_BackupFailsOpen ==
  /\ [](\A p \in Procs : (op[p] = "backup" /\ pc[p] = "done") => ret[p].e = NoError)
  /\ [][doc'.lastBackupAt # doc.lastBackupAt
          => \E p \in Procs : pc[p] = "bk_update" /\ loc[p].saved]_vars

\* The step of handler p's warmup that gets the status, or no status.
WarmupStatusStep(p) == pc[p] = "wu_status" /\ pc'[p] # "wu_status"

\* C20: when the status request of a warmup is over, either there is no
\* status and the warmup returns false without a start call; or the App
\* Engine wallet is unstarted, bound to another peer (host or port) than the
\* configured one, or up for more than 4 hours, and one start call with the
\* configured peer is made; or none of these, and the warmup returns true
\* without a start call.
C20_WarmupStartsWhenNeeded ==
  [][\A p \in Procs :
       WarmupStatusStep(p) =>
         LET need == \/ ~remote.started
                     \/ remote.peer # loc[p].cfg
                     \/ remote.uptime > MaxUptime
         IN \/ /\ pc'[p] = "done"
               /\ ret'[p].e = NotReady
               /\ remote' = remote
            \/ /\ need
               /\ pc'[p] = "wu_start"
               /\ remote'.starts = remote.starts + 1
               /\ remote'.peer = loc[p].cfg
            \/ /\ ~need
               /\ pc'[p] = "done"
               /\ ret'[p].e = Ready
               /\ remote' = remote]_vars

\* Steps of handler p's transaction call, as seen from outside.
TokenStep(p) == pc[p] = "tx_token" /\ pc'[p] # "tx_token"
WarmupOverStep(p) ==
  /\ op[p] \in {"prepare", "send"}
  /\ pc[p] \in {"wu_status", "wu_start"}
  /\ pc'[p] \notin {"wu_status", "wu_start"}

\* C21: a transaction call is made to the App Engine wallet only by a
\* handler that obtained a token and whose warmup returned true; a handler
\* without a token returns the error and makes no call to the App Engine
\* wallet; and a handler whose warmup returned false returns unknown-error
\* and makes no transaction call.
C21_RpcAfterTokenAndWarmup ==
  /\ [](\A p \in Procs :
          /\ pc[p] = "tx_rpc" => (loc[p].token /\ loc[p].ready)
          /\ (op[p] \in {"prepare", "send"} /\ pc[p] \in {"wu_status", "wu_start"})
                => loc[p].token)
  /\ [][/\ remote'.rpcs # remote.rpcs
           => \E p \in Procs : /\ WarmupOverStep(p)
                               /\ pc'[p] = "tx_rpc"
                               /\ remote'.rpcs = remote.rpcs + 1
                               /\ loc[p].token
        /\ \A p \in Procs :
             /\ (TokenStep(p) /\ pc'[p] = "done")
                => /\ ret'[p] = [h |-> Undefined, e |-> ErrUnknown, fetches |-> 0]
                   /\ remote' = remote
             /\ (WarmupOverStep(p) /\ pc'[p] = "done")
                => /\ ret'[p] = [h |-> Undefined, e |-> ErrUnknown, fetches |-> 0]
                   /\ remote'.rpcs = remote.rpcs]_vars

\* One handler made its transaction call after a start call of its warmup;
\* the other's warmup returned false and it made none.
C21_Witness ==
  \E p \in Procs, q \in Procs :
     /\ pc[p] = "tx_rpc" /\ loc[p].ready
     /\ remote.starts = 1 /\ remote.rpcs = 1
     /\ op[q] \in {"prepare", "send"} /\ pc[q] = "done"
     /\ ret[q] = [h |-> Undefined, e |-> ErrUnknown, fetches |-> 0]

\* C22: a getServiceWallet call that returns service-halted returns no
\* handle and did so at once: it read no metadata record and no blob, and
\* the singleton, its start time and baseline, the stored record and blob
\* and every instance are as they were.
C22_HaltedTouchesNothing ==
  [][\A p \in Procs :
       ( /\ Free(p)
         /\ ret'[p].e = ErrHalted
         /\ (pc'[p] # pc[p] \/ ret'[p] # ret[p]) )
       => /\ op'[p] = "gsw"
          /\ pc'[p] = "done"
          /\ ret'[p] = [h |-> Undefined, e |-> ErrHalted, fetches |-> 0]
          /\ loc'[p] = NoLoc
          /\ UNCHANGED <<registry, storage, wallets, nWallets, history>>]_vars

\* A call was refused by the halt while an instance is installed and running.
C22_Witness ==
  \E p \in Procs :
     /\ pc[p] = "done"
     /\ ret[p].e = ErrHalted
     /\ masterWallet # Undefined
     /\ wallets[masterWallet].stops = 0

\* C23: a getMasterWallet call that has returned has returned a handle and
\* no error, or an error and no handle: never neither and never both.
C23_HandleXorError ==
  \A p \in Procs :
     (op[p] = "gmw" /\ pc[p] = "done" /\ ret[p].e # Thrown)
     => (ret[p].h # Undefined) # (ret[p].e # NoError)

\* C24: the handle a getMasterWallet call returns is of an instance on
\* which stop() has not been invoked when the call returns.
C24_ReturnsRunning ==
  [][\A p \in Procs :
       ( /\ op[p] = "gmw"
         /\ pc[p] # "done"
         /\ pc'[p] = "done"
         /\ ret'[p].h # Undefined )
       => wallets'[ret'[p].h].stops = 0]_vars

\* Steps of the sync-failure teardown of handler p.
TeardownStopStep(p) == pc[p] = "gsw_sync" /\ pc'[p] = "gsw_stop"
TeardownClearStep(p) == pc[p] = "gsw_stop" /\ pc'[p] # "gsw_stop"

\* C25: the teardown of a getServiceWallet call invokes stop() on the
\* instance its sync wait failed on and on no other, and the singleton it
\* clears is that instance.
C25_TeardownOwnInstance ==
  [][\A p \in Procs :
       /\ TeardownStopStep(p)
          => /\ wallets'[loc[p].h].stops = wallets[loc[p].h].stops + 1
             /\ \A i \in WalletIds : i # loc[p].h => wallets'[i] = wallets[i]
       /\ (TeardownClearStep(p) /\ masterWallet' # masterWallet)
          => masterWallet = loc[p].h]_vars

\* C26: the step with which a getMasterWallet call returns master-wallet-info
\* or master-wallet-file changes neither the singleton, nor the recorded
\* start time, nor the baseline, nor any instance, and the call has opened
\* and started no instance before it.
C26_ErrorLeavesRegistry ==
  [][\A p \in Procs :
       ( /\ op[p] = "gmw"
         /\ pc[p] # "done"
         /\ pc'[p] = "done"
         /\ ret'[p].e \in {ErrInfo, ErrFile} )
       => /\ UNCHANGED <<registry, wallets, nWallets, history>>
          /\ loc[p].newW = Undefined
          /\ loc[p].startedAt = Undefined
          /\ ret'[p].h = Undefined]_vars

\* a call has returned master-wallet-file while an instance is installed and
\* running
C26_Witness ==
  \E p \in Procs :
     /\ op[p] = "gmw" /\ pc[p] = "done" /\ ret[p].e = ErrFile
     /\ ret[p].fetches = 1
     /\ masterWallet # Undefined
     /\ wallets[masterWallet].stops = 0

\* C27: when a getMasterWallet call installs an instance, the blob that
\* instance was loaded from was written no earlier than the blob of the save
\* that set the lastSaveAt the call takes as the baseline.
C27_InstalledNotOlderThanBaseline ==
  [][\A p \in Procs :
       (SwapStep(p) /\ masterWallet' = loc[p].newW)
       => /\ masterWalletLastSaveAt' = WalletInfo(p).lastSaveAt
          /\ wallets[loc[p].newW].loaded >= WalletInfo(p).wrote]_vars

\* an instance is installed that was loaded from a blob a save wrote while
\* the acquire was under way, with the baseline of an earlier save
C27_Witness ==
  /\ masterWallet # Undefined
  /\ wallets[masterWallet].loaded = 2
  /\ doc.wrote = 2
  /\ masterWalletLastSaveAt # doc.lastSaveAt

\* C28: when a createMasterWallet call returns the error of a failed wallet
\* creation or start, which it does only after it created the metadata
\* record, no metadata record is left.
C28_CreateAllOrNothing ==
  [][\A p \in Procs :
       ( /\ op[p] = "create"
         /\ pc[p] # "done"
         /\ pc'[p] = "done"
         /\ ret'[p].e = ErrUnknown )
       => ~doc'.exists]_vars

====
